---- MODULE Spec2Model ----
(***************************************************************************)
(* pybecker: the Becker shutter controller (src/pybecker/becker.py).       *)
(*                                                                         *)
(* The model follows one Becker instance: the persisted unit table, the    *)
(* position of the running send() call, the in-memory unit list that       *)
(* run_codes mutates, the frame list it builds, and what the transport     *)
(* was handed.  becker_helper (generate_code, finalize_code) and database  *)
(* (Database) are imported by becker.py but are not part of src/; they are *)
(* modelled from the specification's sections 4.1 and 4.2.                 *)
(***************************************************************************)
EXTENDS Integers, Sequences, FiniteSets, TLC

\* ------------------------------------------------------------------ bounds

\* Number of send() calls followed in one behaviour.
MaxSends == 2

\* ------------------------------------------------------- program constants

COMMAND_UP == 32
COMMAND_UP2 == 33
COMMAND_UP5 == 36
COMMAND_DOWN == 64
COMMAND_DOWN5 == 68
COMMAND_HALT == 16
COMMAND_PAIR == 128
COMMAND_PAIR2 == 129
COMMAND_PAIR3 == 130
COMMAND_PAIR4 == 131
COMMAND_CLEARPOS == 144
COMMAND_CLEARPOS2 == 145
COMMAND_CLEARPOS3 == 146
COMMAND_CLEARPOS4 == 147

\* ------------------------------------------------------------ input domains

\* Unit ids that have a row in the unit table.
UnitIds == {1, 2}

\* The unit part of a channel address "<unit>:<channel>": 3 names a unit
\* with no row, 0 and -1 broadcast.
UnitParts == {-1, 0, 1, 2, 3}

\* The channel part of a channel address.
Channels == {0, 7, 8, 15}

\* Channel addresses as channel.split(':') leaves them, each part already
\* read as the integer it spells: <<channel>> or <<unit, channel>>.
Addresses == {<<c>> : c \in Channels} \cup {<<u, c>> : u \in UnitParts, c \in Channels}

\* Command keywords handed to send(): the eight keywords, two timed moves,
\* and a string outside the accepted set.
Keywords == {"UP", "UP2", "DOWN", "DOWN2", "HALT", "TRAIN", "CLEARPOS",
             "REMOVE", "UP:3", "DOWN:3", "FOO"}

\* The arguments of two send() calls run as tasks of one event loop.
GatherAddresses == {<<7>>, <<0, 7>>, <<2, 8>>}
GatherKeywords == {"UP", "TRAIN", "REMOVE", "UP:3"}

VARIABLES
    is_serial,   \* self.is_serial: serial device or socket
    store,       \* Database: unit id -> [counter, paired], the persisted table
    pc,          \* position of the send() call: "idle", "run_codes", "write", "done"
    ch,          \* send(): ch, the parsed channel
    un,          \* send(): un, the parsed unit id
    cmd,         \* send(): cmd
    test,        \* send(): test (the dry-run flag)
    targets,     \* send(): the unit lists still to be run (units / [unit])
    unit,        \* run_codes(): the in-memory unit list of the running target
    codes,       \* run_codes(): codes
    idx,         \* write(): position of the for loop in codes (1-based)
    exc,         \* the exception that left send(), "none" when it returned
    sent,        \* frames handed to write_function during this send() call
    lastWrite,   \* what the last write_function call did
    nstore,      \* number of set_unit calls of this send() call that persisted
    store0,      \* the unit table when this send() call was invoked
    removeMax,   \* unit id -> greatest counter of a frame of a REMOVE that unpaired the unit, -1 when none
    maxSent,     \* unit id -> greatest counter of a frame the transport wrote so far, -1 when none (kept under SpecObserved)
    txCount,     \* unit id -> number of frames transmitted so far (kept under SpecObserved)
    nsends,      \* number of send() calls so far
    task,        \* which of two gathered send() coroutines is running (1, 2), 0 for a lone call
    other,       \* the gathered send() coroutine that is not running: its arguments, locals and position
    yielding,    \* the running coroutine is suspended at an await and the event loop has control
    trace        \* transport writes and store calls of the gathered coroutines, in order (kept under SpecTasks)

vars == <<is_serial, store, pc, ch, un, cmd, test, targets, unit, codes, idx,
          exc, sent, lastWrite, nstore, store0, maxSent, txCount, removeMax, nsends,
          task, other, yielding, trace>>

\* ------------------------------------------------------------- unit store

\* No unit list is held.
NoUnit == [id |-> 0, counter |-> 0, paired |-> FALSE]

\* Database.get_unit(id): the row as a fresh list [id, counter, paired].
get_unit(db, id) == [id |-> id, counter |-> db[id].counter, paired |-> db[id].paired]

\* Ascending sequence of the elements of a finite set of integers.
RECURSIVE SortedSeq(_)
SortedSeq(S) ==
    IF S = {} THEN <<>>
    ELSE LET m == CHOOSE x \in S : \A y \in S : x <= y
         IN <<m>> \o SortedSeq(S \ {m})

\* Database.get_all_units(): every row, in table order.
get_all_units(db) ==
    LET ids == SortedSeq(DOMAIN db)
    IN [i \in 1..Len(ids) |-> get_unit(db, ids[i])]

\* Database.set_unit(unit, test): persists counter and paired flag unless test.
set_unit(db, u, t) ==
    IF t THEN db
    ELSE [db EXCEPT ![u.id] = [counter |-> u.counter, paired |-> u.paired]]

\* ----------------------------------------------------------- frame encoder

\* generate_code(channel, unit, opcode): packs channel, unit id, the unit's
\* current counter and the opcode.
generate_code(channel, u, op) ==
    [channel |-> channel, unit |-> u.id, counter |-> u.counter, op |-> op]

\* finalize_code(code): the frame with checksum and framing appended.
finalize_code(code) ==
    [channel |-> code.channel, unit |-> code.unit, counter |-> code.counter,
     op |-> code.op, framed |-> TRUE]

\* ------------------------------------------------------- command sequencer

\* Mutant: the comparison with "TRAIN" is inverted.
NotConfigured_inverted(u, c) == u.paired = FALSE /\ c = "TRAIN"

\* run_codes(): the guard that rejects a command on an unconfigured unit.
NotConfigured(u, c) == u.paired = FALSE /\ c # "TRAIN"

\* re.match(r"(DOWN|UP):(\d+)", cmd): the matched direction, "" when the
\* pattern does not match.
MatchDir(c) ==
    CASE c = "UP:3" -> "UP"
      [] c = "DOWN:3" -> "DOWN"
      [] OTHER -> ""

\* Mutant: UP2 sends COMMAND_UP2 instead of COMMAND_UP5.
KeywordOps_up2(c) ==
    CASE c = "UP" -> <<COMMAND_UP>>
      [] c = "UP2" -> <<COMMAND_UP2>>
      [] c = "HALT" -> <<COMMAND_HALT>>
      [] c = "DOWN" -> <<COMMAND_DOWN>>
      [] c = "DOWN2" -> <<COMMAND_DOWN5>>
      [] c = "TRAIN" -> <<COMMAND_PAIR2, COMMAND_PAIR2>>
      [] c = "CLEARPOS" -> <<COMMAND_PAIR, COMMAND_CLEARPOS, COMMAND_CLEARPOS2,
                             COMMAND_CLEARPOS3, COMMAND_CLEARPOS4>>
      [] c = "REMOVE" -> <<COMMAND_PAIR2, COMMAND_PAIR2, COMMAND_PAIR3, COMMAND_PAIR4>>
      [] OTHER -> <<>>

\* Mutant: TRAIN builds one pair frame instead of two.
KeywordOps_train1(c) ==
    CASE c = "UP" -> <<COMMAND_UP>>
      [] c = "UP2" -> <<COMMAND_UP5>>
      [] c = "HALT" -> <<COMMAND_HALT>>
      [] c = "DOWN" -> <<COMMAND_DOWN>>
      [] c = "DOWN2" -> <<COMMAND_DOWN5>>
      [] c = "TRAIN" -> <<COMMAND_PAIR2>>
      [] c = "CLEARPOS" -> <<COMMAND_PAIR, COMMAND_CLEARPOS, COMMAND_CLEARPOS2,
                             COMMAND_CLEARPOS3, COMMAND_CLEARPOS4>>
      [] c = "REMOVE" -> <<COMMAND_PAIR2, COMMAND_PAIR2, COMMAND_PAIR3, COMMAND_PAIR4>>
      [] OTHER -> <<>>

\* run_codes(): the opcodes appended to codes by the if/elif chain on cmd.
KeywordOps(c) ==
    CASE c = "UP" -> <<COMMAND_UP>>
      [] c = "UP2" -> <<COMMAND_UP5>>
      [] c = "HALT" -> <<COMMAND_HALT>>
      [] c = "DOWN" -> <<COMMAND_DOWN>>
      [] c = "DOWN2" -> <<COMMAND_DOWN5>>
      [] c = "TRAIN" -> <<COMMAND_PAIR2, COMMAND_PAIR2>>
      [] c = "CLEARPOS" -> <<COMMAND_PAIR, COMMAND_CLEARPOS, COMMAND_CLEARPOS2,
                             COMMAND_CLEARPOS3, COMMAND_CLEARPOS4>>
      [] c = "REMOVE" -> <<COMMAND_PAIR2, COMMAND_PAIR2, COMMAND_PAIR3, COMMAND_PAIR4>>
      [] OTHER -> <<>>

\* run_codes(): unit[2] after the if/elif chain (TRAIN sets 1, REMOVE sets 0).
KeywordPaired(c, p) ==
    IF c = "TRAIN" THEN TRUE
    ELSE IF c = "REMOVE" THEN FALSE
    ELSE p

\* Mutant: unit[1] -= 1
Bump_dec(u) == [u EXCEPT !.counter = @ - 1]

\* Mutant: the increment is missing.
Bump_none(u) == u

\* unit[1] += 1
Bump(u) == [u EXCEPT !.counter = @ + 1]

\* run_codes(): codes.append(generate_code(...)) for each opcode in turn, with
\* unit[1] += 1 between two appends.
RECURSIVE Press(_, _, _)
Press(channel, u, ops) ==
    IF ops = <<>> THEN [codes |-> <<>>, unit |-> u]
    ELSE IF Len(ops) = 1
         THEN [codes |-> <<generate_code(channel, u, ops[1])>>, unit |-> u]
         ELSE LET rest == Press(channel, Bump(u), Tail(ops))
              IN [codes |-> <<generate_code(channel, u, ops[1])>> \o rest.codes,
                  unit |-> rest.unit]

\* run_codes() from codes = [] to the line before self.write(codes), for a
\* command the timed-move pattern does not match: the if/elif chain, then the
\* else branch's unit[1] += 1.
Build(channel, u, c) ==
    LET p == Press(channel, u, KeywordOps(c))
    IN [codes |-> p.codes,
        unit |-> Bump([p.unit EXCEPT !.paired = KeywordPaired(c, @)])]

\* ---------------------------------------------------------------- transport

\* What a write_function call did: the number of write / sendall calls, the
\* number of _connect() calls, the number of write / sendall calls that
\* returned (each hands the whole frame to the peer), and whether the call
\* returned (ok) or raised.

\* No write_function call yet in this send() call.
NoWrite == [attempts |-> 0, reconnects |-> 0, delivered |-> 0, ok |-> TRUE]

\* serial.Serial.write: one attempt, an error surfaces.
serial_write(s1) ==
    [attempts |-> 1, reconnects |-> 0, delivered |-> IF s1 THEN 1 ELSE 0, ok |-> s1]

\* Mutant: the except branch calls the wrapper again instead of sendall, so a
\* failed retry reconnects and sends once more.
reconnecting_sendall_again(s1, r, s2) ==
    IF s1 THEN [attempts |-> 1, reconnects |-> 0, delivered |-> 1, ok |-> TRUE]
    ELSE IF ~r THEN [attempts |-> 1, reconnects |-> 1, delivered |-> 0, ok |-> FALSE]
    ELSE IF s2 THEN [attempts |-> 2, reconnects |-> 1, delivered |-> 1, ok |-> TRUE]
    ELSE [attempts |-> 3, reconnects |-> 2, delivered |-> 1, ok |-> TRUE]

\* _reconnecting_sendall: sendall; on OSError _connect() and sendall again.
\* s1, s2: whether the first and second sendall succeed; r: whether
\* _connect() succeeds.
reconnecting_sendall(s1, r, s2) ==
    IF s1 THEN [attempts |-> 1, reconnects |-> 0, delivered |-> 1, ok |-> TRUE]
    ELSE IF ~r THEN [attempts |-> 1, reconnects |-> 1, delivered |-> 0, ok |-> FALSE]
    ELSE [attempts |-> 2, reconnects |-> 1, delivered |-> IF s2 THEN 1 ELSE 0, ok |-> s2]

\* Mutant: _connect() installs the reconnecting wrapper for a serial device too.
write_function_wrapped(serial, s1, r, s2) == reconnecting_sendall(s1, r, s2)

\* self.write_function, as _connect() set it.
write_function(serial, s1, r, s2) ==
    IF serial THEN serial_write(s1) ELSE reconnecting_sendall(s1, r, s2)

\* Mutant: the error of a write_function call is swallowed.
WriteRaises_swallow(o) == FALSE

\* write(): whether a write_function call's error leaves the for loop.
WriteRaises(o) == ~o.ok

\* --------------------------------------------------------------- event loop

\* Mutant: write() waits with "await asyncio.sleep(0.1)".
Suspends_sleep(point) == point = "sleep"

\* Whether a coroutine gives control back to the event loop at a point of
\* send(): "await_run_codes" (await self.run_codes(...)), "await_write"
\* (await self.write(codes)), "sleep" (time.sleep(0.1) in write()). The two
\* awaits are on coroutines that are run to their end inside the caller and
\* contain no await on a future; time.sleep blocks the thread.
Suspends(point) == FALSE

\* --------------------------------------------------------------- controller

\* send(): un and ch from b = channel.split(':').
ParseUnit(b) == IF Len(b) > 1 THEN b[1] ELSE 1
ParseChannel(b) == IF Len(b) > 1 THEN b[2] ELSE b[1]

\* Mutant: the upper end of the range is 8.
ValidChannel_8(c) == ~(~(1 <= c /\ c <= 8) /\ c # 15)

\* send(): not (not 1 <= ch <= 7 and ch != 15)
ValidChannel(c) == ~(~(1 <= c /\ c <= 7) /\ c # 15)

\* Mutant: the comparison of un is inverted.
Broadcasts_inverted(unv) == unv > 0

\* Mutant: only a negative un broadcasts.
Broadcasts_negative(unv) == unv < 0

\* send(): the else branch of "if un > 0", the command goes to every unit.
Broadcasts(unv) == ~(unv > 0)

\* Mutant: run_codes() drops its test argument on the way to the store.
set_unit_call_untested(db, u, t) == set_unit(db, u, FALSE)

\* run_codes(): self.db.set_unit(unit, test), the table afterwards.
set_unit_call(db, u, t) == set_unit(db, u, t)

\* self.device: the device name the instance was constructed with.
device == IF is_serial THEN "/dev/ttyACM0" ELSE "host:5000"

Max(a, b) == IF a >= b THEN a ELSE b

\* Greatest counter carried by a frame of a frame list, -1 for the empty list.
RECURSIVE MaxCounterOf(_)
MaxCounterOf(fs) ==
    IF fs = <<>> THEN -1 ELSE Max(Head(fs).counter, MaxCounterOf(Tail(fs)))

\* No coroutine is waiting.
NoTask ==
    [task |-> 0, pc |-> "idle", ch |-> 0, un |-> 0, cmd |-> "", test |-> FALSE,
     targets |-> <<>>, unit |-> NoUnit, codes |-> <<>>, idx |-> 1,
     exc |-> "none", sent |-> <<>>, lastWrite |-> NoWrite, nstore |-> 0,
     store0 |-> [u \in UnitIds |-> [counter |-> 0, paired |-> FALSE]]]

\* A send() coroutine that has not run yet. ch and un are what its first
\* lines will compute from the channel argument alone.
Fresh(i, b, c, t) ==
    [NoTask EXCEPT !.task = i, !.pc = "start", !.ch = ParseChannel(b),
                   !.un = ParseUnit(b), !.cmd = c, !.test = t]

\* The running coroutine, as the event loop keeps it while another one runs.
Current ==
    [task |-> task, pc |-> pc, ch |-> ch, un |-> un, cmd |-> cmd, test |-> test,
     targets |-> targets, unit |-> unit, codes |-> codes, idx |-> idx,
     exc |-> exc, sent |-> sent, lastWrite |-> lastWrite, nstore |-> nstore,
     store0 |-> store0]

\* The event loop gives control to coroutine c.
Load(c) ==
    /\ task' = c.task
    /\ pc' = c.pc
    /\ ch' = c.ch
    /\ un' = c.un
    /\ cmd' = c.cmd
    /\ test' = c.test
    /\ targets' = c.targets
    /\ unit' = c.unit
    /\ codes' = c.codes
    /\ idx' = c.idx
    /\ exc' = c.exc
    /\ sent' = c.sent
    /\ lastWrite' = c.lastWrite
    /\ nstore' = c.nstore
    /\ store0' = c.store0

\* The running coroutine reaches a point where it suspends while another
\* coroutine is waiting for the event loop.
Yields(point) == other.task # 0 /\ Suspends(point)

Init ==
    /\ is_serial \in BOOLEAN
    /\ store \in [UnitIds -> [counter : {0}, paired : BOOLEAN]]
    /\ pc = "idle"
    /\ ch = 0
    /\ un = 0
    /\ cmd = ""
    /\ test = FALSE
    /\ targets = <<>>
    /\ unit = NoUnit
    /\ codes = <<>>
    /\ idx = 1
    /\ exc = "none"
    /\ sent = <<>>
    /\ lastWrite = NoWrite
    /\ nstore = 0
    /\ store0 = store
    /\ maxSent = [u \in UnitIds |-> -1]
    /\ txCount = [u \in UnitIds |-> 0]
    /\ removeMax = [u \in UnitIds |-> -1]
    /\ nsends = 0
    /\ task = 0
    /\ other = NoTask
    /\ yielding = FALSE
    /\ trace = <<>>

\* send() from the channel range check to the first run_codes() call, with
\* ch and un as parsed: validate, resolve targets.
Enter(chv, unv, c, t) ==
    /\ ch' = chv
    /\ un' = unv
    /\ cmd' = c
    /\ test' = t
    /\ unit' = NoUnit
    /\ codes' = <<>>
    /\ idx' = 1
    /\ sent' = <<>>
    /\ lastWrite' = NoWrite
    /\ nstore' = 0
    /\ store0' = store
    /\ IF ~ValidChannel(chv) \/ device = ""
       THEN /\ targets' = <<>>
            /\ exc' = "none"
            /\ pc' = "done"
       ELSE IF ~Broadcasts(unv)
       THEN IF unv \in DOMAIN store
            THEN /\ targets' = <<get_unit(store, unv)>>
                 /\ exc' = "none"
                 /\ pc' = "run_codes"
            ELSE /\ targets' = <<>>
                 /\ exc' = "NotFound"
                 /\ pc' = "done"
       ELSE /\ targets' = get_all_units(store)
            /\ exc' = "none"
            /\ pc' = IF get_all_units(store) = <<>> THEN "done" ELSE "run_codes"
    /\ yielding' = (pc' = "run_codes" /\ Yields("await_run_codes"))
    /\ UNCHANGED <<is_serial, store, maxSent, txCount, removeMax>>

\* A lone send() call, up to its first run_codes() call.
Send(b, c, t) ==
    /\ pc = "idle"
    /\ nsends < MaxSends
    /\ nsends' = nsends + 1
    /\ Enter(ParseChannel(b), ParseUnit(b), c, t)
    /\ UNCHANGED <<task, other, trace>>

\* run_codes() from its entry to the line before self.write(codes).
RunCodes ==
    /\ pc = "run_codes"
    /\ ~yielding
    /\ IF NotConfigured(Head(targets), cmd)
       THEN \* logged; return
            /\ unit' = Head(targets)
            /\ codes' = <<>>
            /\ idx' = 1
            /\ targets' = Tail(targets)
            /\ pc' = IF Tail(targets) = <<>> THEN "done" ELSE "run_codes"
            /\ UNCHANGED exc
       ELSE IF MatchDir(cmd) # ""
       THEN \* _LOGGER.INFO(...): a Logger has no attribute INFO
            /\ unit' = Head(targets)
            /\ codes' = <<>>
            /\ idx' = 1
            /\ exc' = "AttributeError"
            /\ pc' = "done"
            /\ UNCHANGED targets
       ELSE /\ unit' = Build(ch, Head(targets), cmd).unit
            /\ codes' = Build(ch, Head(targets), cmd).codes
            /\ idx' = 1
            /\ pc' = "write"
            /\ UNCHANGED <<targets, exc>>
    /\ yielding' = (pc' = "write" /\ Yields("await_write"))
    /\ UNCHANGED <<is_serial, store, ch, un, cmd, test, sent, lastWrite, nstore,
                   store0, maxSent, txCount, removeMax, nsends, task, other, trace>>

\* write(): one turn of the for loop, write_function(finalize_code(code)).
Handoff(s1, r, s2) ==
    /\ pc = "write"
    /\ ~yielding
    /\ idx <= Len(codes)
    /\ LET frame == finalize_code(codes[idx])
           o == write_function(is_serial, s1, r, s2)
       IN /\ sent' = Append(sent, frame)
          /\ lastWrite' = o
          /\ IF WriteRaises(o)
             THEN /\ exc' = IF is_serial THEN "SerialException" ELSE "OSError"
                  /\ pc' = "done"
                  /\ UNCHANGED idx
             ELSE /\ idx' = idx + 1
                  /\ UNCHANGED <<exc, pc>>
    /\ trace' = IF task = 0 THEN trace
                ELSE Append(trace, [task |-> task, kind |-> "frame"])
    /\ yielding' = (pc' = "write" /\ Yields("sleep"))
    /\ UNCHANGED <<is_serial, store, ch, un, cmd, test, targets, unit, codes,
                   nstore, store0, removeMax, nsends, task, other>>

Write(s1, r, s2) ==
    /\ Handoff(s1, r, s2)
    /\ UNCHANGED <<maxSent, txCount>>

\* The same step, with the transport's peer keeping count of what it was
\* handed and what reached it.
WriteObserved(s1, r, s2) ==
    /\ Handoff(s1, r, s2)
    /\ maxSent' = [maxSent EXCEPT ![sent'[Len(sent')].unit] =
                      IF lastWrite'.ok THEN Max(@, sent'[Len(sent')].counter) ELSE @]
    /\ txCount' = [txCount EXCEPT ![sent'[Len(sent')].unit] =
                      IF lastWrite'.ok THEN @ + 1 ELSE @]

\* run_codes(): self.db.set_unit(unit, test) after write() returned, then
\* send() goes on to its next target.
SetUnit ==
    /\ pc = "write"
    /\ ~yielding
    /\ idx > Len(codes)
    /\ store' = set_unit_call(store, unit, test)
    /\ nstore' = IF test THEN nstore ELSE nstore + 1
    /\ removeMax' = IF store[unit.id].paired /\ ~store'[unit.id].paired
                    THEN [removeMax EXCEPT ![unit.id] = Max(@, MaxCounterOf(codes))]
                    ELSE removeMax
    /\ targets' = Tail(targets)
    /\ pc' = IF Tail(targets) = <<>> THEN "done" ELSE "run_codes"
    /\ trace' = IF task = 0 THEN trace
                ELSE Append(trace, [task |-> task, kind |-> "store"])
    /\ yielding' = (pc' = "run_codes" /\ Yields("await_run_codes"))
    /\ UNCHANGED <<is_serial, ch, un, cmd, test, unit, codes, idx, exc, sent,
                   lastWrite, store0, maxSent, txCount, nsends, task, other>>

\* send() has returned or raised: its arguments and locals are gone.
Return ==
    /\ pc = "done"
    /\ other.task = 0
    /\ task' = 0
    /\ trace' = <<>>
    /\ pc' = "idle"
    /\ ch' = 0
    /\ un' = 0
    /\ cmd' = ""
    /\ test' = FALSE
    /\ targets' = <<>>
    /\ unit' = NoUnit
    /\ codes' = <<>>
    /\ idx' = 1
    /\ exc' = "none"
    /\ sent' = <<>>
    /\ lastWrite' = NoWrite
    /\ nstore' = 0
    /\ store0' = store
    /\ UNCHANGED <<is_serial, store, maxSent, txCount, removeMax, nsends, other,
                   yielding>>

\* Two send() calls are made tasks of the event loop (asyncio.gather); the
\* loop runs the first.
Gather(b1, c1, t1, b2, c2, t2) ==
    /\ pc = "idle"
    /\ nsends + 2 <= MaxSends
    /\ nsends' = nsends + 2
    /\ Load(Fresh(1, b1, c1, t1))
    /\ other' = Fresh(2, b2, c2, t2)
    /\ yielding' = FALSE
    /\ trace' = <<>>
    /\ UNCHANGED <<is_serial, store, maxSent, txCount, removeMax>>

\* A gathered send() coroutine runs its first lines, up to its first
\* run_codes() call.
Start ==
    /\ pc = "start"
    /\ Enter(ch, un, cmd, test)
    /\ UNCHANGED <<nsends, task, other, trace>>

\* The event loop has control, because the running coroutine is over or
\* suspended, and gives it to the waiting coroutine; a suspended coroutine
\* goes on waiting where it is.
Resume ==
    /\ other.task # 0
    /\ pc = "done" \/ yielding
    /\ Load(other)
    /\ other' = IF yielding THEN Current ELSE NoTask
    /\ yielding' = FALSE
    /\ UNCHANGED <<is_serial, store, maxSent, txCount, removeMax, nsends, trace>>

Next ==
    \/ \E b \in Addresses, c \in Keywords, t \in BOOLEAN : Send(b, c, t)
    \/ RunCodes
    \/ \E s1, r, s2 \in BOOLEAN : Write(s1, r, s2)
    \/ SetUnit
    \/ Return

Spec == Init /\ [][Next]_vars

NextObserved ==
    \/ \E b \in Addresses, c \in Keywords, t \in BOOLEAN : Send(b, c, t)
    \/ RunCodes
    \/ \E s1, r, s2 \in BOOLEAN : WriteObserved(s1, r, s2)
    \/ SetUnit
    \/ Return

SpecObserved == Init /\ [][NextObserved]_vars

NextTasks ==
    \/ \E b1, b2 \in GatherAddresses, c1, c2 \in GatherKeywords, t1, t2 \in BOOLEAN :
          Gather(b1, c1, t1, b2, c2, t2)
    \/ Start
    \/ RunCodes
    \/ \E s1, r, s2 \in BOOLEAN : Write(s1, r, s2)
    \/ SetUnit
    \/ Resume
    \/ Return

SpecTasks == Init /\ [][NextTasks]_vars

\* ------------------------------------------------------------------ claims

\* The frames of this send() call that were handed to the transport for unit u.
SentFor(u) == SelectSeq(sent, LAMBDA f : f.unit = u)

\* The opcodes of a frame list, in order.
OpsOf(fs) == [i \in 1..Len(fs) |-> fs[i].op]

IsPrefix(a, b) == Len(a) <= Len(b) /\ \A i \in 1..Len(a) : a[i] = b[i]

\* The frames of this send() call that the transport wrote: every frame
\* handed to it, but the last one when its write failed.
Transmitted ==
    IF lastWrite.ok THEN sent ELSE SubSeq(sent, 1, Len(sent) - 1)

TransmittedFor(u) == SelectSeq(Transmitted, LAMBDA f : f.unit = u)

\* The last frame handed to the transport.
LastSent == sent[Len(sent)]

\* A transport write failed and its error left send().
WriteFailed == pc = "done" /\ exc \in {"OSError", "SerialException"}

\* The channels the specification accepts.
AcceptedChannels == (1..7) \cup {15}

\* The running send() call addresses unit u.
Targeted(u) == un = u \/ un <= 0

\* C1: every frame handed to the transport for a unit carries a counter
\* strictly greater than the counter of every frame that was handed to the
\* transport for that unit before and written by it (checked under
\* SpecObserved, which keeps maxSent).
C1_AntiReplay ==
    [][Len(sent') > Len(sent) =>
         sent'[Len(sent')].counter > maxSent[sent'[Len(sent')].unit]]_vars

\* C2: no step makes a unit's persisted counter smaller, whatever the send
\* (rejected, dry run, failed transport write).
C2_CounterNeverDecreases ==
    [][\A u \in UnitIds : store'[u].counter >= store[u].counter]_vars

\* C2 witness: a send whose transport write failed, on a table whose unit
\* counter an earlier send had raised.
C2_Witness ==
    /\ WriteFailed
    /\ nsends = 2
    /\ store[unit.id].counter > 0

\* C3: between sends, every unit's persisted counter is its counter at
\* creation (0) plus the number of frames transmitted for it since then
\* (checked under SpecObserved, which keeps txCount).
C3_CounterCountsFrames ==
    pc \in {"idle", "done"} => \A u \in UnitIds : store[u].counter = 0 + txCount[u]

\* The opcode sequence the specification gives for a keyword.
ClaimedOps(c) ==
    CASE c = "UP" -> <<32>>
      [] c = "UP2" -> <<36>>
      [] c = "DOWN" -> <<64>>
      [] c = "DOWN2" -> <<68>>
      [] c = "HALT" -> <<16>>
      [] c = "TRAIN" -> <<129, 129>>
      [] c = "CLEARPOS" -> <<128, 144, 145, 146, 147>>
      [] c = "REMOVE" -> <<129, 129, 130, 131>>

ClaimedKeywords == {"UP", "UP2", "DOWN", "DOWN2", "HALT", "TRAIN", "CLEARPOS", "REMOVE"}

\* C4: for one of the eight keywords, a valid channel and a unit that is
\* paired (or any unit for TRAIN), the opcodes handed to the transport for the
\* unit are at every moment a prefix of the keyword's sequence, and they are
\* the whole sequence, all transmitted, once send() has returned.
C4_KeywordOpcodes ==
    \A u \in UnitIds :
        (/\ pc # "idle"
         /\ cmd \in ClaimedKeywords
         /\ ch \in AcceptedChannels
         /\ Targeted(u)
         /\ (store0[u].paired \/ cmd = "TRAIN"))
        => /\ IsPrefix(OpsOf(SentFor(u)), ClaimedOps(cmd))
           /\ (pc = "done" /\ exc = "none")
                => OpsOf(TransmittedFor(u)) = ClaimedOps(cmd)

\* C4 witness: a broadcast REMOVE has returned after its 8 frames.
C4_Witness ==
    /\ pc = "done"
    /\ exc = "none"
    /\ cmd = "REMOVE"
    /\ un = 0
    /\ Len(sent) = 8

\* C5: a unit's persisted paired flag goes from false to true only in a
\* TRAIN, and only when exactly 2 pair frames were handed to the transport for
\* the unit and both were transmitted; while fewer than 2 frames of a TRAIN
\* have been transmitted for a unit that was unpaired, it stays unpaired.
C5_PairAfterTwoFrames ==
    /\ [][\A u \in UnitIds :
            (~store[u].paired /\ store'[u].paired)
            => /\ cmd = "TRAIN"
               /\ OpsOf(SentFor(u)) = <<129, 129>>
               /\ TransmittedFor(u) = SentFor(u)]_vars
    /\ [](\A u \in UnitIds :
            (cmd = "TRAIN" /\ ~store0[u].paired /\ Len(TransmittedFor(u)) < 2)
            => ~store[u].paired)

\* C5 witness: a TRAIN stopped by a failed write of its 2nd frame, the unit
\* still unpaired.
C5_Witness ==
    /\ WriteFailed
    /\ cmd = "TRAIN"
    /\ Len(SentFor(unit.id)) = 2
    /\ ~store0[unit.id].paired
    /\ ~store[unit.id].paired

\* C6: a unit's persisted paired flag goes from true to false only in a
\* REMOVE whose 4 frames were all transmitted; that step keeps the unit's row
\* and leaves its counter above every counter of the REMOVE's frames; and
\* every frame of a later TRAIN carries a counter greater than every counter
\* of the frames of a REMOVE that unpaired the unit.
C6_UnpairAfterFourFrames ==
    /\ [][\A u \in UnitIds :
            (store[u].paired /\ ~store'[u].paired)
            => /\ cmd = "REMOVE"
               /\ OpsOf(SentFor(u)) = <<129, 129, 130, 131>>
               /\ TransmittedFor(u) = SentFor(u)
               /\ DOMAIN store' = DOMAIN store
               /\ \A i \in 1..Len(SentFor(u)) :
                      store'[u].counter > SentFor(u)[i].counter]_vars
    /\ [](cmd = "TRAIN" =>
            \A i \in 1..Len(sent) : sent[i].counter > removeMax[sent[i].unit])

\* C6 witness: a TRAIN frame has been handed to the transport for a unit that
\* an earlier REMOVE unpaired.
C6_Witness ==
    /\ cmd = "TRAIN"
    /\ sent # <<>>
    /\ removeMax[LastSent.unit] >= 0
    /\ ~store0[LastSent.unit].paired

\* C7: the channel test accepts exactly 1..7 and 15; a send() whose channel
\* is outside them ends at once with no transport write, no unit read and the
\* unit table as it was; a send() whose channel is among them goes on to
\* resolve its targets.
C7_ChannelValidation ==
    /\ \A c \in -2..17 : ValidChannel(c) <=> c \in AcceptedChannels
    /\ [][nsends' = nsends + 1 =>
            IF ch' \in AcceptedChannels
            THEN \/ pc' = "run_codes" /\ targets' # <<>>
                 \/ exc' = "NotFound"
            ELSE /\ pc' = "done"
                 /\ exc' = "none"
                 /\ targets' = <<>>
                 /\ unit' = NoUnit
                 /\ sent' = <<>>
                 /\ store' = store]_vars
    /\ []((pc = "done" /\ ch \notin AcceptedChannels)
            => sent = <<>> /\ store = store0 /\ unit = NoUnit)

\* C7 witness: a send() on channel 8 was rejected after an earlier send() had
\* changed the unit table.
C7_Witness ==
    /\ pc = "done"
    /\ ch = 8
    /\ nsends = 2
    /\ \E u \in UnitIds : store[u].counter > 0

\* C8: during and after a send() of a command other than TRAIN, a unit that
\* was unpaired when send() was invoked has no frame built for it, none handed
\* to the transport, its in-memory list untouched, and its persisted counter
\* and paired flag unchanged.
C8_UnconfiguredGuard ==
    \A u \in UnitIds :
        (pc # "idle" /\ cmd # "TRAIN" /\ ~store0[u].paired)
        => /\ SentFor(u) = <<>>
           /\ \A i \in 1..Len(codes) : codes[i].unit # u
           /\ unit.id = u => unit = get_unit(store0, u)
           /\ store[u] = store0[u]

\* C8 witness: a broadcast of a command other than TRAIN has returned; it
\* skipped unit 1, unpaired, and sent frames for unit 2.
C8_Witness ==
    /\ pc = "done"
    /\ exc = "none"
    /\ cmd # "TRAIN"
    /\ un = 0
    /\ ~store0[1].paired
    /\ SentFor(2) # <<>>

\* C9: when a transport write fails after at least one frame of the same
\* command was transmitted for the unit, the unit's persisted counter is
\* greater than the counter of every frame already transmitted for it.
C9_NoRollback ==
    (WriteFailed /\ TransmittedFor(unit.id) # <<>>)
    => \A i \in 1..Len(TransmittedFor(unit.id)) :
           store[unit.id].counter > TransmittedFor(unit.id)[i].counter

\* C10: on the socket transport, when a sendall fails and the reconnect or
\* the retried sendall fails too, the error leaves send() and the unit's
\* persisted counter and paired flag are what they were when send() was
\* invoked.
C10_DoubleFailure ==
    (~is_serial /\ lastWrite.reconnects = 1 /\ ~lastWrite.ok)
    => /\ pc = "done"
       /\ exc = "OSError"
       /\ store[unit.id] = store0[unit.id]

\* C10 witness: the retried sendall of the 3rd frame of a command failed, on
\* a unit whose counter an earlier send had raised.
C10_Witness ==
    /\ ~is_serial
    /\ lastWrite.attempts = 2
    /\ ~lastWrite.ok
    /\ Len(sent) = 3
    /\ store0[unit.id].counter > 0

\* C11: on the socket transport a frame write makes at most 2 sendall calls
\* and at most 1 _connect() call; when the first sendall fails and the retried
\* one succeeds, exactly one sendall call handed the frame to the peer, no
\* error is raised, and write() goes on to the next frame with the unit list,
\* the frame list and the unit table as they were.
C11_BoundedRetry ==
    [][(~is_serial /\ Len(sent') > Len(sent))
       => /\ lastWrite'.attempts <= 2
          /\ lastWrite'.reconnects <= 1
          /\ (lastWrite'.attempts = 2 /\ lastWrite'.ok)
             => /\ lastWrite'.delivered = 1
                /\ exc' = "none"
                /\ pc' = "write"
                /\ idx' = idx + 1
                /\ UNCHANGED <<store, unit, codes, targets>>]_vars

\* C11 witness: the 1st frame of a command went out on the retried sendall
\* and the 2nd frame has been handed to the transport after it.
C11_Witness ==
    /\ ~is_serial
    /\ Len(sent) = 2
    /\ Len(codes) = 4
    /\ lastWrite.attempts = 2
    /\ lastWrite.ok
    /\ pc = "write"

\* The keywords the timed-move pattern matches.
TimedKeywords == {c \in Keywords : MatchDir(c) # ""}

\* The opcode sequence the specification gives for a timed move.
ClaimedTimedOps(c) == IF MatchDir(c) = "UP" THEN <<32, 16>> ELSE <<64, 16>>

\* C12: a timed move (UP:<n> or DOWN:<n>) on a paired unit and a valid
\* channel ends with exactly two frames transmitted for the unit, 0x20 or 0x40
\* and then 0x10, and with the unit's persisted counter 2 above what it was.
C12_TimedMove ==
    (/\ pc = "done"
     /\ cmd \in TimedKeywords
     /\ ch \in AcceptedChannels
     /\ un \in UnitIds
     /\ store0[un].paired
     /\ ~test)
    => /\ OpsOf(TransmittedFor(un)) = ClaimedTimedOps(cmd)
       /\ store[un].counter = store0[un].counter + 2

\* C13: while a send with dryRun = TRUE runs and after it, the unit table is
\* what it was when the send began, and once it has returned the frames of its
\* keyword have been transmitted for every unit it addressed and did not
\* reject, for each of the eight keywords.
C13_DryRun ==
    (pc # "idle" /\ test)
    => /\ store = store0
       /\ nstore = 0
       /\ \A u \in UnitIds :
            (/\ pc = "done"
             /\ exc = "none"
             /\ cmd \in ClaimedKeywords
             /\ ch \in AcceptedChannels
             /\ Targeted(u)
             /\ (store0[u].paired \/ cmd = "TRAIN"))
            => OpsOf(TransmittedFor(u)) = ClaimedOps(cmd)

\* C13 witness: a dry-run REMOVE on a paired unit has returned after its 4
\* frames.
C13_Witness ==
    /\ pc = "done"
    /\ exc = "none"
    /\ test
    /\ cmd = "REMOVE"
    /\ un = 1
    /\ store0[1].paired
    /\ Len(Transmitted) = 4
    /\ store[1].paired

\* C13 witness, the other keyword that changes the flag: a dry-run TRAIN on an
\* unpaired unit has returned after its 2 frames and the unit is still unpaired.
C13_WitnessTrain ==
    /\ pc = "done"
    /\ exc = "none"
    /\ test
    /\ cmd = "TRAIN"
    /\ un = 2
    /\ ~store[2].paired
    /\ Len(Transmitted) = 2

\* The number of frames the specification gives for a keyword.
ClaimedFrames(c) == IF c \in TimedKeywords THEN 2 ELSE Len(ClaimedOps(c))

\* For the keywords of K, a valid channel and a unit the guard lets through:
\* the k-th frame handed to the transport for the unit carries the unit's
\* persisted counter at the start of the send plus k - 1, and once the send is
\* over without a transport failure the unit's frames are the n frames of the
\* keyword and, unless it was a dry run, its persisted counter is n higher.
OneIncrementPerFrame(K) ==
    \A u \in UnitIds :
        (/\ pc # "idle"
         /\ cmd \in K
         /\ ch \in AcceptedChannels
         /\ Targeted(u)
         /\ (store0[u].paired \/ cmd = "TRAIN"))
        => /\ \A k \in 1..Len(SentFor(u)) :
                SentFor(u)[k].counter = store0[u].counter + k - 1
           /\ (pc = "done" /\ ~WriteFailed)
                => /\ Len(TransmittedFor(u)) = ClaimedFrames(cmd)
                   /\ ~test => store[u].counter = store0[u].counter + ClaimedFrames(cmd)

\* C15: one counter increment per frame, for the eight keywords (1 frame, 2
\* for TRAIN, 5 for CLEARPOS, 4 for REMOVE) and the timed moves (2 frames).
C15_OneIncrementPerFrame == OneIncrementPerFrame(ClaimedKeywords \cup TimedKeywords)

\* The same statement for the eight keywords alone; this one holds.
C15_EightKeywords == OneIncrementPerFrame(ClaimedKeywords)

\* The units a send addresses and its guard lets through.
AcceptedUnits == {u \in UnitIds : Targeted(u) /\ (store0[u].paired \/ cmd = "TRAIN")}

\* C16: a step writes a unit to the store only when every frame built for it
\* has been transmitted, the last one included; each store write is one unit's;
\* and a command of the eight keywords that returned without a failure, not a
\* dry run, has written each unit it ran for exactly once.
C16_PersistAfterTransmit ==
    /\ [][(nstore' > nstore \/ store' # store)
          => /\ pc = "write"
             /\ idx > Len(codes)
             /\ TransmittedFor(unit.id) = [i \in 1..Len(codes) |-> finalize_code(codes[i])]
             /\ nstore' = nstore + 1
             /\ \A u \in UnitIds : u # unit.id => store'[u] = store[u]]_vars
    /\ [](/\ pc = "done"
          /\ exc = "none"
          /\ ~test
          /\ cmd \in ClaimedKeywords
          /\ ch \in AcceptedChannels
          => nstore = Cardinality(AcceptedUnits))

\* C16 witness: a CLEARPOS on one paired unit has returned after 5 transmitted
\* frames and one store write.
C16_Witness ==
    /\ pc = "done"
    /\ exc = "none"
    /\ ~test
    /\ cmd = "CLEARPOS"
    /\ un = 2
    /\ Len(Transmitted) = 5
    /\ nstore = 1
    /\ store[2].counter = store0[2].counter + 5

\* C18: on the serial transport a frame write is one write call and no
\* _connect() call; when it fails the error leaves send() at once, and the
\* failed frame is the last one handed to the transport: the unit's later
\* frames and the later units of a broadcast get none.
C18_SerialFailure ==
    is_serial
    => /\ lastWrite.attempts <= 1
       /\ lastWrite.reconnects = 0
       /\ ~lastWrite.ok
          => /\ pc = "done"
             /\ exc = "SerialException"
             /\ idx <= Len(codes)
             /\ LastSent = finalize_code(codes[idx])
             /\ Len(SentFor(unit.id)) = idx
             /\ \A u \in UnitIds : u > unit.id => SentFor(u) = <<>>

\* C18 witness: the serial write of the 2nd of 5 frames failed during a
\* broadcast.
C18_Witness ==
    /\ is_serial
    /\ ~lastWrite.ok
    /\ un <= 0
    /\ Len(targets) = 2
    /\ Len(codes) = 5
    /\ Len(sent) = 2
    /\ exc = "SerialException"

\* The keywords outside the accepted set.
UnknownKeywords == Keywords \ (ClaimedKeywords \cup TimedKeywords)

\* C19: a send with a valid channel, a keyword outside the accepted set, one
\* paired unit and dryRun = FALSE hands no frame to the transport, returns
\* without an error and leaves the unit's persisted counter exactly 1 higher.
C19_UnknownKeyword ==
    (/\ pc # "idle"
     /\ cmd \in UnknownKeywords
     /\ ch \in AcceptedChannels
     /\ un \in UnitIds
     /\ store0[un].paired
     /\ ~test)
    => /\ sent = <<>>
       /\ exc = "none"
       /\ pc = "done" => store[un].counter = store0[un].counter + 1

\* C19 witness: FOO on paired unit 1 has returned; nothing was sent and the
\* counter is 1 higher.
C19_Witness ==
    /\ pc = "done"
    /\ cmd = "FOO"
    /\ ch = 7
    /\ un = 1
    /\ ~test
    /\ store0[1].paired
    /\ sent = <<>>
    /\ store[1].counter = store0[1].counter + 1

\* C17: a send with a unit id of 0 or less and a valid channel never fails
\* to find a unit; its frames go out unit by unit in the order of the unit
\* list; when a frame of a later unit has been handed to the transport, every
\* earlier unit the guard let through has had all its frames transmitted and
\* (unless dry run) has been persisted; and once the send has returned, every
\* unit the guard let through has had its frames transmitted, the ones after a
\* rejected unit included, and the rejected units none.
C17_Broadcast ==
    (pc # "idle" /\ un <= 0 /\ ch \in AcceptedChannels)
    => /\ exc # "NotFound"
       /\ \A i, j \in 1..Len(sent) : i < j => sent[i].unit <= sent[j].unit
       /\ cmd \in ClaimedKeywords
          => /\ \A u \in AcceptedUnits, v \in UnitIds :
                  (u < v /\ SentFor(v) # <<>>)
                  => /\ OpsOf(TransmittedFor(u)) = ClaimedOps(cmd)
                     /\ ~test => store[u].counter
                                   = store0[u].counter + Len(ClaimedOps(cmd))
             /\ (pc = "done" /\ exc = "none")
                => /\ \A u \in AcceptedUnits :
                        OpsOf(TransmittedFor(u)) = ClaimedOps(cmd)
                   /\ \A u \in UnitIds \ AcceptedUnits : SentFor(u) = <<>>

\* C17 witness: a broadcast CLEARPOS to unit id -1 has returned; unit 1 was
\* rejected by the guard and unit 2 got its 5 frames and was persisted.
C17_Witness ==
    /\ pc = "done"
    /\ exc = "none"
    /\ un = -1
    /\ cmd = "CLEARPOS"
    /\ ~test
    /\ ~store0[1].paired
    /\ store0[2].paired
    /\ SentFor(1) = <<>>
    /\ Len(SentFor(2)) = 5
    /\ store[2].counter = store0[2].counter + 5

\* C17 witness, both units let through: the first frame of unit 2 has been
\* handed to the transport after unit 1's 4 REMOVE frames and its store write.
C17_WitnessOrder ==
    /\ pc = "write"
    /\ un = 0
    /\ cmd = "REMOVE"
    /\ ~test
    /\ Len(SentFor(1)) = 4
    /\ Len(SentFor(2)) = 1
    /\ ~store[1].paired
    /\ store[2].paired

\* C20: a send to one unit ("<unit>:<channel>" with unit > 0, or a bare
\* "<channel>", which addresses unit 1) hands the transport only frames that
\* carry that unit's id and leaves every other unit's row as it was, at every
\* moment of the send and however it ends.
C20_SingleUnit ==
    /\ \A c \in Channels : ParseUnit(<<c>>) = 1
    /\ (pc # "idle" /\ un > 0)
       => /\ \A i \in 1..Len(sent) : sent[i].unit = un
          /\ \A u \in UnitIds : u # un => store[u] = store0[u]

\* C20 witness: a send to unit 2 failed in the transport on its 2nd frame,
\* with unit 1 paired and its counter raised by an earlier send.
C20_Witness ==
    /\ WriteFailed
    /\ un = 2
    /\ Len(sent) = 2
    /\ store[1].counter > 0
    /\ store[1].paired
    /\ store[1] = store0[1]

\* C20 witness, the rejected send: UP to unpaired unit 1 has returned with
\* nothing sent.
C20_WitnessRejected ==
    /\ pc = "done"
    /\ un = 1
    /\ cmd = "UP"
    /\ ch = 15
    /\ ~store0[1].paired
    /\ sent = <<>>
    /\ store = store0

\* C14: of two send() calls run as tasks of one event loop, the transport
\* writes and store calls of one all come before those of the other: the
\* sequence of them never returns to a task after the other task's turn.
C14_NoInterleaving ==
    /\ \A i, j, k \in 1..Len(trace) :
         (i < j /\ j < k /\ trace[i].task = trace[k].task)
         => trace[j].task = trace[i].task

\* C14 witness: both tasks are over; the first made 2 transport writes and a
\* store call (TRAIN), the second 4 transport writes and a store call
\* (REMOVE), on the same unit.
C14_Witness ==
    /\ pc = "done"
    /\ task = 2
    /\ other.task = 0
    /\ cmd = "REMOVE"
    /\ un = 1
    /\ Len(trace) = 8
    /\ trace[1].task = 1
    /\ trace[3] = [task |-> 1, kind |-> "store"]
    /\ trace[4] = [task |-> 2, kind |-> "frame"]
    /\ trace[8] = [task |-> 2, kind |-> "store"]

====
